---- MODULE Spec2Model ----
(***************************************************************************)
(* Model of omsi/shared/mpi_helper.py: class parallel_over_axes, which     *)
(* splits main_data into sub-blocks along split_axes and runs              *)
(* task_function on the blocks over the ranks of an MPI communicator,      *)
(* with a STATIC (run_static) or a DYNAMIC (run_dynamic) schedule.         *)
(*                                                                         *)
(* Axis indices and ranks are 0-based as in the source; TLA+ sequences are *)
(* 1-based, so axis a of a shape is shape[a + 1].                          *)
(*                                                                         *)
(* comm.send is modelled as a buffered (eager) send: the message is put in *)
(* flight and the sender goes on.  comm.recv blocks until a matching       *)
(* message is in flight.  An exception that leaves run() puts the process  *)
(* in pc = "error"; it takes no further step.                              *)
(***************************************************************************)
EXTENDS Integers, Sequences, FiniteSets, TLC

(***************************************************************************)
(* Bounds of the explored inputs.                                          *)
(***************************************************************************)
\* number of dataset axes
MaxDims == 2
\* number of elements of the dataset (product of the extents of its shape)
MaxElems == 4
\* number of MPI ranks of the communicator
MaxProcs == 3
\* size of a DYNAMIC run: its number of task ranks times its number of
\* sub-blocks
MaxDynWork == 6

\* number of run() calls a rank makes one after the other
MaxRuns == 2

(***************************************************************************)
(* Values.                                                                 *)
(***************************************************************************)
\* Python's None (self.result before run(), line 75)
None == [kind |-> "None"]

\* slice(None): the full range of an axis
SliceNone == [kind |-> "all", start |-> 0, stop |-> 0]

\* slice(start, stop)
Slice(start, stop) == [kind |-> "slice", start |-> start, stop |-> stop]

\* a single coordinate of an axis (an element of range(shape[axis]))
Coord(i) == [kind |-> "index", start |-> i, stop |-> i]

Min(a, b) == IF a < b THEN a ELSE b

\* main_data[selection]: what numpy indexing reads.  The data are identified
\* by the region read: per axis the clipped half-open range of a slice (a
\* slice that starts past the end of the axis is empty), or the coordinate.
MainDataGetItem(shape, selection) ==
    [a \in 1..Len(shape) |->
        CASE selection[a].kind = "all" ->
                 [kind |-> "range", start |-> 0, stop |-> shape[a]]
          [] selection[a].kind = "slice" ->
                 [kind  |-> "range",
                  start |-> Min(selection[a].start, shape[a]),
                  stop  |-> Min(selection[a].stop, shape[a])]
          [] OTHER -> selection[a]]

\* task_function(**task_params): opaque and deterministic; its return value is
\* identified by the data it was given under main_data_param_name.
task_function(data) == [kind |-> "out", data |-> data]

(***************************************************************************)
(* The data shape parameters (run_static 100-112, run_dynamic 158-161).    *)
(***************************************************************************)
RECURSIVE Prod(_)
\* np.prod
Prod(s) == IF s = <<>> THEN 1 ELSE Head(s) * Prod(Tail(s))

\* an index i into a list or array of n entries: a negative index counts
\* from the end
PyIndex(n, i) == IF i < 0 THEN i + n ELSE i

\* indexing with i raises IndexError unless -n <= i < n
IndexInRange(n, i) == -n <= i /\ i < n

\* every index of split_axes can index the shape (else line 100 or 158
\* raises IndexError)
AxesInRange(shape, axes) ==
    \A i \in 1..Len(axes) : IndexInRange(Len(shape), axes[i])

\* np.asarray(self.main_data.shape)[self.split_axes]
AxesShapes(shape, axes) ==
    [i \in 1..Len(axes) |-> shape[PyIndex(Len(shape), axes[i]) + 1]]

TotalNumSubblocks(shape, axes) == Prod(AxesShapes(shape, axes))

\* if total_num_subblocks < size: size = total_num_subblocks
EffectiveSize(shape, axes, comm_size) ==
    LET total_num_subblocks == TotalNumSubblocks(shape, axes)
    IN  IF total_num_subblocks < comm_size THEN total_num_subblocks ELSE comm_size

\* ArgSort putting the later of two equal values first
ArgSortTiesReversed(s) ==
    [k \in 1..Len(s) |->
        (CHOOSE i \in 1..Len(s) :
            Cardinality({j \in 1..Len(s) :
                s[j] < s[i] \/ (s[j] = s[i] /\ j > i)}) = k - 1) - 1]

\* np.argsort: the 0-based positions of s in ascending order of value (equal
\* values keep their order, as numpy's sort of a short array does)
ArgSort(s) ==
    [k \in 1..Len(s) |->
        (CHOOSE i \in 1..Len(s) :
            Cardinality({j \in 1..Len(s) :
                s[j] < s[i] \/ (s[j] = s[i] /\ j < i)}) = k - 1) - 1]

Reverse(s) == [k \in 1..Len(s) |-> s[Len(s) + 1 - k]]

\* axes_sort_index = np.argsort(axes_shapes)[::-1]
AxesSortIndex(shape, axes) == Reverse(ArgSort(AxesShapes(shape, axes)))

\* split_axis = axes_sort_index[0]: a position in split_axes
SplitAxis(shape, axes) == AxesSortIndex(shape, axes)[1]

\* split_axis_size = axes_shapes[split_axis]
SplitAxisSize(shape, axes) == AxesShapes(shape, axes)[SplitAxis(shape, axes) + 1]

\* StaticRaises comparing the number of sub-blocks, not the split axis
StaticRaisesOnTotal(shape, axes, comm_size) ==
    TotalNumSubblocks(shape, axes) < EffectiveSize(shape, axes, comm_size)

\* if split_axis_size < size: raise NotImplementedError
StaticRaises(shape, axes, comm_size) ==
    SplitAxisSize(shape, axes) < EffectiveSize(shape, axes, comm_size)

\* BlockSize rounding up
BlockSizeCeil(split_axis_size, size) == (split_axis_size + size - 1) \div size

\* block_size = split_axis_size / size  (Python 2 integer division)
BlockSize(split_axis_size, size) == split_axis_size \div size

\* start_index = rank * block_size
StartIndex(rank, block_size) == rank * block_size

\* StopIndex without the remainder given to the last rank
StopIndexNoRemainder(rank, size, block_size, split_axis_size) ==
    rank * block_size + block_size

\* stop_index = start_index + block_size, replaced by split_axis_size on the
\* rank size - 1
StopIndex(rank, size, block_size, split_axis_size) ==
    IF rank = size - 1
    THEN split_axis_size
    ELSE StartIndex(rank, block_size) + block_size

\* my_block[axes_sort_index[0]] = slice(start_index, stop_index): the index
\* of the entry of my_block that is replaced
BlockAxis(axes_sort_index) == axes_sort_index[1]

\* my_block: slice(None) on every axis of main_data, and
\* slice(start_index, stop_index) on the axis of index axes_sort_index[0]
MyBlock(shape, axes, comm_size, rank) ==
    LET size == EffectiveSize(shape, axes, comm_size)
        axes_sort_index == AxesSortIndex(shape, axes)
        split_axis_size == AxesShapes(shape, axes)[axes_sort_index[1] + 1]
        block_size == BlockSize(split_axis_size, size)
        block == Slice(StartIndex(rank, block_size),
                       StopIndex(rank, size, block_size, split_axis_size))
        block_axis == BlockAxis(axes_sort_index)
    IN  [a \in 1..Len(shape) |-> IF a - 1 = block_axis THEN block ELSE SliceNone]

(***************************************************************************)
(* The blocks of a DYNAMIC run (run_dynamic 165-169).                      *)
(***************************************************************************)
\* BaseBlocks leaving out the last coordinate of every split axis
BaseBlocksSkipLast(shape, axes) ==
    [a \in 1..Len(shape) |->
        IF \E i \in 1..Len(axes) : PyIndex(Len(shape), axes[i]) = a - 1
        THEN [c \in 1..(shape[a] - 1) |-> Coord(c - 1)]
        ELSE <<SliceNone>>]

\* base_blocks: [slice(None)] on every axis, range(shape[axis]) on the axes
\* of split_axes
BaseBlocks(shape, axes) ==
    [a \in 1..Len(shape) |->
        IF \E i \in 1..Len(axes) : PyIndex(Len(shape), axes[i]) = a - 1
        THEN [c \in 1..shape[a] |-> Coord(c - 1)]
        ELSE <<SliceNone>>]

RECURSIVE Product(_)
\* itertools.product(*base_blocks): the tuples in lexicographic order, the
\* last axis varying fastest
Product(lists) ==
    IF lists = <<>> THEN << <<>> >>
    ELSE LET rest == Product(Tail(lists))
             first == Head(lists)
         IN  [k \in 1..(Len(first) * Len(rest)) |->
                 <<first[((k - 1) \div Len(rest)) + 1]>>
                     \o rest[((k - 1) % Len(rest)) + 1]]

\* BlockTuples in the opposite order
BlockTuplesReversed(shape, axes) == Reverse(Product(BaseBlocks(shape, axes)))

\* block_tuples = itertools.product(*base_blocks)
BlockTuples(shape, axes) == Product(BaseBlocks(shape, axes))

(***************************************************************************)
(* The inputs: the arguments of __init__ and the size of the communicator. *)
(***************************************************************************)
\* an empty dict
EmptyDict == [k \in {} |-> None]

\* self.main_data_param_name: the name of the data parameter of task_function
main_data_param_name == "main_data"

\* the task_function_params arguments: None or {} (line 72 makes None an
\* empty dict), or a dict with one parameter of the caller
NoParams == EmptyDict
OneParam == [p \in {"scale"} |-> [kind |-> "value"]]

RECURSIVE ShapesOfLen(_)
\* the shapes with n axes, every extent positive, of at most MaxElems elements
ShapesOfLen(n) ==
    IF n = 0 THEN {<<>>}
    ELSE {Append(s, e) : s \in ShapesOfLen(n - 1), e \in 1..MaxElems}

\* the shapes of at most MaxDims axes and MaxElems elements; at most one
\* axis has the extent 1 (a second such axis adds no sub-block and no way to
\* split)
Shapes ==
    {s \in UNION {ShapesOfLen(n) : n \in 1..MaxDims} :
        /\ Prod(s) <= MaxElems
        /\ Cardinality({a \in 1..Len(s) : s[a] = 1}) <= 1}

\* the non-empty lists of distinct axis indices of a shape
SplitAxesOf(shape) ==
    {ax \in UNION {[1..n -> 0..(Len(shape) - 1)] : n \in 1..Len(shape)} :
        \A i, j \in 1..Len(ax) : i # j => ax[i] # ax[j]}

\* the inputs drawn from the bounds
BoundedInputs ==
    UNION {
        {c \in [shape : {s}, split_axes : SplitAxesOf(s),
                schedule : {"STATIC", "DYNAMIC"}, collect_output : BOOLEAN,
                root : 0..(MaxProcs - 1), comm_size : 1..MaxProcs,
                task_function_params : {NoParams}, mpi_available : {TRUE}] :
            /\ c.root < c.comm_size
            /\ (c.schedule = "DYNAMIC" /\ c.comm_size >= 2) =>
                   (c.comm_size - 1) * TotalNumSubblocks(s, c.split_axes) <= MaxDynWork}
        : s \in Shapes}

\* the STATIC runs named by the scenarios: shapes (8,), (9,) and (3,) on 4
\* ranks, without and with a parameter of the caller
ScenarioInputs ==
    {[shape |-> s, split_axes |-> <<0>>, schedule |-> "STATIC",
      collect_output |-> TRUE, root |-> 0, comm_size |-> 4,
      task_function_params |-> p, mpi_available |-> TRUE] :
        s \in {<<8>>, <<9>>, <<3>>}, p \in {NoParams, OneParam}}

\* the requests built in a process where mpi4py cannot be imported (lines
\* 1-5): a single process
NoMpiInputs ==
    {[c EXCEPT !.mpi_available = FALSE] : c \in {b \in BoundedInputs : b.comm_size = 1}}

\* DYNAMIC runs on a dataset whose two axes have different extents above 1:
\* shapes (2, 3) and (3, 2), split along both axes, on 2 ranks
DynamicScenarioInputs ==
    {[shape |-> s, split_axes |-> ax, schedule |-> "DYNAMIC",
      collect_output |-> TRUE, root |-> 0, comm_size |-> 2,
      task_function_params |-> NoParams, mpi_available |-> TRUE] :
        s \in {<<2, 3>>, <<3, 2>>}, ax \in {<<0, 1>>, <<1, 0>>}}

Inputs ==
    BoundedInputs \cup ScenarioInputs \cup DynamicScenarioInputs \cup NoMpiInputs

\* the DYNAMIC requests on at least 2 ranks
DynamicInputs ==
    {c \in BoundedInputs : c.schedule = "DYNAMIC" /\ c.comm_size >= 2}

\* those with a sub-block for every rank, which a single run() completes on
\* every rank
CompletingDynamicInputs ==
    {c \in DynamicInputs :
        TotalNumSubblocks(c.shape, c.split_axes) >= c.comm_size}

\* the requests whose schedule is no member of SCHEDULES (lines 31-32)
UnknownScheduleInputs ==
    {[c EXCEPT !.schedule = "GUIDED"] : c \in {b \in BoundedInputs : b.schedule = "STATIC"}}

\* the requests whose communicator is not MPI.COMM_WORLD: COMM_WORLD has one
\* rank more, which is left out of the communicator, and the ranks of the
\* communicator follow the order of the COMM_WORLD ranks
SubCommInputs ==
    UNION {
        {[shape |-> c.shape, split_axes |-> c.split_axes, schedule |-> c.schedule,
          collect_output |-> c.collect_output, root |-> c.root,
          comm_size |-> c.comm_size,
          task_function_params |-> c.task_function_params,
          mpi_available |-> c.mpi_available,
          world_rank |-> [r \in 0..(c.comm_size - 1) |->
                             IF r < left_out THEN r ELSE r + 1],
          world_size |-> c.comm_size + 1] : left_out \in 0..c.comm_size}
        : c \in BoundedInputs}

\* the lists of one or two indices, of distinct axes, with an index that is
\* not in 0..n-1: negative, or past the last axis
InvalidSplitAxesOf(shape) ==
    LET n == Len(shape) IN
    {ax \in UNION {[1..k -> (-n - 1)..n] : k \in 1..Min(n, 2)} :
        /\ \E i \in 1..Len(ax) : ax[i] < 0 \/ ax[i] >= n
        /\ \A i, j \in 1..Len(ax) : i # j => PyIndex(n, ax[i]) # PyIndex(n, ax[j])}

\* the requests with such a split_axes
InvalidAxesInputs ==
    UNION {
        {c \in [shape : {s}, split_axes : InvalidSplitAxesOf(s),
                schedule : {"STATIC", "DYNAMIC"}, collect_output : BOOLEAN,
                root : 0..(MaxProcs - 1), comm_size : 1..MaxProcs,
                task_function_params : {NoParams}, mpi_available : {TRUE}] :
            /\ c.root < c.comm_size
            /\ (c.schedule = "DYNAMIC" /\ c.comm_size >= 2
                    /\ AxesInRange(s, c.split_axes)) =>
                   (c.comm_size - 1) * TotalNumSubblocks(s, c.split_axes) <= MaxDynWork}
        : s \in Shapes}

(***************************************************************************)
(* The state.                                                              *)
(***************************************************************************)
VARIABLES
    MPI_AVAILABLE,    \* whether mpi4py could be imported (lines 1-5)
    shape,            \* self.main_data.shape
    split_axes,       \* self.split_axes
    schedule,         \* self.schedule
    collect_output,   \* self.collect_output
    root,             \* self.root
    comm_size,        \* the number of ranks of self.comm
    world_rank,       \* per rank of self.comm: its rank in MPI.COMM_WORLD
    world_size,       \* the number of ranks of MPI.COMM_WORLD
    caller_params,    \* the task_function_params the caller built the request with
    run,              \* per rank: the number of the run() call the rank is in
    task_function_params, \* per rank: self.task_function_params
    pc,               \* per rank: where the rank is in run()
    my_block,         \* per rank: my_block of run_static
    result,           \* per rank: self.result
    gather_buf,       \* comm.gather: the values the ranks have handed in
    rank_msg,         \* per source rank: the RANK_MSG messages in flight to root
    block_msg,        \* per dest rank: the BLOCK_MSG messages in flight
    collect_msg,      \* per source rank: the COLLECT_MSG messages in flight
    size,             \* root, run_dynamic: the local size
    block_index,      \* root, run_dynamic: block_index
    all_ranks_status, \* root, run_dynamic: all_ranks_status
    collected_data,   \* root, run_dynamic: collected_data
    request_rank,     \* root, run_dynamic: request_rank
    cur_block,        \* per rank, run_dynamic: (block_index, block_selection)
    task_calls,       \* per rank: the calls of task_function so far (history)
    sent_blocks       \* per dest rank: the BLOCK_MSG messages sent (history)

config == <<MPI_AVAILABLE, shape, split_axes, schedule, collect_output, root,
            comm_size, world_rank, world_size, caller_params>>
static_vars == <<my_block, gather_buf>>
net == <<rank_msg, block_msg, collect_msg>>
root_vars == <<size, block_index, all_ranks_status, collected_data, request_rank>>
call == <<config, run>>
calls == <<task_calls, task_function_params>>
history == <<calls, sent_blocks>>
vars == <<call, pc, result, static_vars, net, root_vars, cur_block, history>>

Ranks == 0..(comm_size - 1)

\* is_mpi_available that finds MPI whatever the import did
AlwaysAvailable == TRUE

\* is_mpi_available(), lines 275-280
is_mpi_available == MPI_AVAILABLE

\* get_rank(), lines 234-246, as lines 96 and 148 call it, without a
\* communicator, on the process of rank `rank` of self.comm: its rank in
\* MPI.COMM_WORLD
get_rank(rank) == IF MPI_AVAILABLE THEN world_rank[rank] ELSE 0

\* get_size(), lines 249-261, as lines 97 and 149 call it, without a
\* communicator: the size of MPI.COMM_WORLD
get_size == IF MPI_AVAILABLE THEN world_size ELSE 1

\* a RANK_MSG message: the local variable rank of the sender (lines 148 and
\* 201), tagged with the run() call it was sent in
Request(rank) == [rank |-> get_rank(rank), run |-> run[rank]]

\* the record of a BLOCK_MSG message sent: the message, the run() call root
\* was in and the run() call the request it answers was sent in
SentRecord(msg, request) ==
    [none |-> msg.none, block_index |-> msg.block_index,
     block_selection |-> msg.block_selection,
     run |-> run[root], request_run |-> request.run]

\* the (None, None) reply of line 188
StopMsg == [none |-> TRUE, block_index |-> 0, block_selection |-> <<>>]

\* the (block_index, block_selection) reply of line 175
BlockMsg(index, selection) ==
    [none |-> FALSE, block_index |-> index, block_selection |-> selection]

\* UsesStatic with run_static as the branch of every schedule other than
\* DYNAMIC
UsesStaticByDefault ==
    \/ schedule # "DYNAMIC"
    \/ schedule = "DYNAMIC" /\ get_size < 2

\* UsesStatic without the fallback of run_dynamic
UsesStaticNoFallback == schedule = "STATIC"

\* run() takes the STATIC branch, or run_dynamic falls back to run_static
\* (lines 84-85 and 151-153)
UsesStatic ==
    \/ schedule = "STATIC"
    \/ schedule = "DYNAMIC" /\ get_size < 2

\* run_dynamic goes on past the size check of line 151
UsesDynamic == schedule = "DYNAMIC" /\ get_size >= 2

\* the state after __init__ on every rank: without MPI, line 64 has raised
\* ValueError and there is no object to call run() on; self.comm is
\* MPI.COMM_WORLD (comm=None, line 76) unless the request names the
\* COMM_WORLD ranks of the members of its communicator
InitOf(inputs) ==
    /\ \E c \in inputs :
        /\ MPI_AVAILABLE = c.mpi_available
        /\ shape = c.shape
        /\ split_axes = c.split_axes
        /\ schedule = c.schedule
        /\ collect_output = c.collect_output
        /\ root = c.root
        /\ comm_size = c.comm_size
        /\ world_rank = IF "world_rank" \in DOMAIN c THEN c.world_rank
                        ELSE [r \in 0..(c.comm_size - 1) |-> r]
        /\ world_size = IF "world_size" \in DOMAIN c THEN c.world_size
                        ELSE c.comm_size
        /\ caller_params = c.task_function_params
        /\ run = [r \in 0..(c.comm_size - 1) |-> 1]
        /\ task_function_params = [r \in 0..(c.comm_size - 1) |-> c.task_function_params]
    /\ pc = [r \in Ranks |-> IF is_mpi_available THEN "start" ELSE "error"]
    /\ my_block = [r \in Ranks |-> <<>>]
    /\ result = [r \in Ranks |-> None]
    /\ gather_buf = EmptyDict
    /\ rank_msg = [r \in Ranks |-> <<>>]
    /\ block_msg = [r \in Ranks |-> <<>>]
    /\ collect_msg = [r \in Ranks |-> <<>>]
    /\ size = comm_size
    /\ block_index = 0
    /\ all_ranks_status = <<>>
    /\ collected_data = EmptyDict
    /\ request_rank = 0
    /\ cur_block = [r \in Ranks |-> StopMsg]
    /\ task_calls = [r \in Ranks |-> <<>>]
    /\ sent_blocks = [r \in Ranks |-> <<>>]

Init == InitOf(Inputs)

\* the runs of the requests of any schedule, known or not
InitAnySchedule == InitOf(Inputs \cup UnknownScheduleInputs)

\* the runs of the requests on a communicator other than MPI.COMM_WORLD
InitSubComm == InitOf(SubCommInputs)

\* the runs of the requests whose split_axes has an invalid index
InitInvalidAxes == InitOf(InvalidAxesInputs)

\* the DYNAMIC runs that run() is called for several times in a row
InitRepeated == InitOf(CompletingDynamicInputs)

\* the DYNAMIC runs on at least 2 ranks
InitDynamic == InitOf(DynamicInputs)

(***************************************************************************)
(* run_static (lines 87-137).                                              *)
(***************************************************************************)
\* StaticBlock comparing split_axis_size with the number of ranks up to and
\* including this one
StaticBlockRaisesByRank(rank) ==
    /\ rank \in Ranks
    /\ pc[rank] = "start"
    /\ UsesStatic
    /\ IF \/ ~AxesInRange(shape, split_axes)
          \/ StaticRaises(shape, split_axes, get_rank(rank) + 1)
       THEN /\ pc' = [pc EXCEPT ![rank] = "error"]
            /\ UNCHANGED my_block
       ELSE /\ my_block' = [my_block EXCEPT
                                ![rank] = MyBlock(shape, split_axes, get_size,
                                                  get_rank(rank))]
            /\ pc' = [pc EXCEPT ![rank] = "static_task"]
    /\ UNCHANGED <<call, result, gather_buf, net, root_vars, cur_block, history>>

\* StaticBlock going to the gather without calling task_function when
\* collect_output is set
StaticBlockSkipsTask(rank) ==
    /\ rank \in Ranks
    /\ pc[rank] = "start"
    /\ UsesStatic
    /\ IF \/ ~AxesInRange(shape, split_axes)
          \/ StaticRaises(shape, split_axes, get_size)
       THEN /\ pc' = [pc EXCEPT ![rank] = "error"]
            /\ UNCHANGED my_block
       ELSE /\ my_block' = [my_block EXCEPT
                                ![rank] = MyBlock(shape, split_axes, get_size,
                                                  get_rank(rank))]
            /\ pc' = [pc EXCEPT ![rank] =
                         IF collect_output THEN "gather" ELSE "static_task"]
    /\ UNCHANGED <<call, result, gather_buf, net, root_vars, cur_block, history>>

\* lines 96-123: IndexError at line 100 when an index of split_axes is out
\* of range, NotImplementedError when the largest axis is too small, else
\* compute my_block
StaticBlock(rank) ==
    /\ rank \in Ranks
    /\ pc[rank] = "start"
    /\ UsesStatic
    /\ IF \/ ~AxesInRange(shape, split_axes)
          \/ StaticRaises(shape, split_axes, get_size)
       THEN /\ pc' = [pc EXCEPT ![rank] = "error"]
            /\ UNCHANGED my_block
       ELSE /\ my_block' = [my_block EXCEPT
                                ![rank] = MyBlock(shape, split_axes, get_size,
                                                  get_rank(rank))]
            /\ pc' = [pc EXCEPT ![rank] = "static_task"]
    /\ UNCHANGED <<call, result, gather_buf, net, root_vars, cur_block, history>>

\* dict[key] = value
SetItem(dict, key, value) ==
    [k \in DOMAIN dict \cup {key} |-> IF k = key THEN value ELSE dict[k]]

\* StaticTask going on to the gather whatever collect_output is
StaticTaskAlwaysGather(rank) ==
    /\ rank \in Ranks
    /\ pc[rank] = "static_task"
    /\ LET data == MainDataGetItem(shape, my_block[rank]) IN
        /\ result' = [result EXCEPT ![rank] = task_function(data)]
        /\ task_function_params' = [task_function_params EXCEPT
               ![rank] = SetItem(@, main_data_param_name, data)]
        /\ task_calls' = [task_calls EXCEPT
               ![rank] = Append(@, [block |-> my_block[rank], data |-> data])]
    /\ pc' = [pc EXCEPT ![rank] = "gather"]
    /\ UNCHANGED <<call, static_vars, net, root_vars, cur_block, sent_blocks>>

\* lines 126-128: task_params is self.task_function_params itself, not a
\* copy; store main_data[my_block] in it and run task_function
StaticTask(rank) ==
    /\ rank \in Ranks
    /\ pc[rank] = "static_task"
    /\ LET data == MainDataGetItem(shape, my_block[rank]) IN
        /\ result' = [result EXCEPT ![rank] = task_function(data)]
        /\ task_function_params' = [task_function_params EXCEPT
               ![rank] = SetItem(@, main_data_param_name, data)]
        /\ task_calls' = [task_calls EXCEPT
               ![rank] = Append(@, [block |-> my_block[rank], data |-> data])]
    /\ pc' = [pc EXCEPT ![rank] = IF collect_output THEN "gather" ELSE "returned"]
    /\ UNCHANGED <<call, static_vars, net, root_vars, cur_block, sent_blocks>>

\* lines 131-137 on a rank of self.comm other than root: hand self.result to
\* the gather, which returns None here; line 134 stores that None when the
\* local variable rank is self.root
GatherSend(rank) ==
    /\ rank \in Ranks
    /\ pc[rank] = "gather"
    /\ rank # root
    /\ gather_buf' = (rank :> result[rank]) @@ gather_buf
    /\ result' = IF get_rank(rank) = root
                 THEN [result EXCEPT ![rank] = None]
                 ELSE result
    /\ pc' = [pc EXCEPT ![rank] = "returned"]
    /\ UNCHANGED <<call, my_block, net, root_vars, cur_block, history>>

\* what comm.gather returns on root: the values of all ranks of the
\* communicator in rank order
Gathered(buf) ==
    [kind |-> "list", items |-> [i \in 1..comm_size |-> buf[i - 1]]]

\* lines 131-137 on rank root of self.comm: the gather completes when every
\* rank has handed in its value; self.result becomes the collected list when
\* the local variable rank is self.root
GatherRoot(rank) ==
    /\ rank \in Ranks
    /\ pc[rank] = "gather"
    /\ rank = root
    /\ \A r \in Ranks \ {root} : r \in DOMAIN gather_buf
    /\ gather_buf' = (rank :> result[rank]) @@ gather_buf
    /\ result' = IF get_rank(rank) = root
                 THEN [result EXCEPT ![rank] = Gathered(gather_buf')]
                 ELSE result
    /\ pc' = [pc EXCEPT ![rank] = "returned"]
    /\ UNCHANGED <<call, my_block, net, root_vars, cur_block, history>>

(***************************************************************************)
(* run_dynamic on the controlling rank (lines 156-194).                    *)
(***************************************************************************)
\* all_ranks_status[rank] = True on an array of n entries: the array with
\* the entry set (an index past the end raises IndexError, see the callers)
SetStatus(status, rank) == [status EXCEPT ![rank + 1] = TRUE]

\* RootSetup with root asking for work like the other ranks
RootSetupSelfRequest(rank) ==
    /\ rank \in Ranks
    /\ pc[rank] = "start"
    /\ UsesDynamic
    /\ get_rank(rank) = root
    /\ size' = EffectiveSize(shape, split_axes, get_size)
    /\ pc' = [pc EXCEPT ![rank] = "dispatch"]
    /\ block_index' = 0
    /\ rank_msg' = [rank_msg EXCEPT ![rank] = Append(@, Request(rank))]
    /\ UNCHANGED <<call, result, static_vars, block_msg, collect_msg,
                   all_ranks_status, collected_data, request_rank, cur_block,
                   history>>

\* lines 158-172: the shape parameters (IndexError at line 158 when an
\* index of split_axes is out of range), the local size, the block iterator
RootSetup(rank) ==
    /\ rank \in Ranks
    /\ pc[rank] = "start"
    /\ UsesDynamic
    /\ get_rank(rank) = root
    /\ IF AxesInRange(shape, split_axes)
       THEN /\ size' = EffectiveSize(shape, split_axes, get_size)
            /\ pc' = [pc EXCEPT ![rank] = "dispatch"]
       ELSE /\ pc' = [pc EXCEPT ![rank] = "error"]
            /\ UNCHANGED size
    /\ block_index' = 0
    /\ UNCHANGED <<call, result, static_vars, net, all_ranks_status,
                   collected_data, request_rank, cur_block, history>>

\* RootDispatch without block_index += 1
RootDispatchSameIndex(rank) ==
    /\ rank \in Ranks
    /\ pc[rank] = "dispatch"
    /\ rank = root
    /\ block_index < Len(BlockTuples(shape, split_axes))
    /\ \E source \in Ranks :
        /\ rank_msg[source] # <<>>
        /\ LET requester == Head(rank_msg[source]).rank
               msg == BlockMsg(block_index,
                               BlockTuples(shape, split_axes)[block_index + 1])
           IN  /\ request_rank' = requester
               /\ rank_msg' = [rank_msg EXCEPT ![source] = Tail(@)]
               /\ block_msg' = [block_msg EXCEPT ![requester] = Append(@, msg)]
               /\ sent_blocks' = [sent_blocks EXCEPT ![requester] =
                      Append(@, SentRecord(msg, Head(rank_msg[source])))]
    /\ UNCHANGED <<call, pc, result, static_vars, collect_msg, size, block_index,
                   all_ranks_status, collected_data, cur_block, calls>>

\* RootDispatch sending the block to any task rank, not to the requester
RootDispatchToAny(rank) ==
    /\ rank \in Ranks
    /\ pc[rank] = "dispatch"
    /\ rank = root
    /\ block_index < Len(BlockTuples(shape, split_axes))
    /\ \E source \in Ranks, dest \in Ranks \ {root} :
        /\ rank_msg[source] # <<>>
        /\ LET requester == Head(rank_msg[source]).rank
               msg == BlockMsg(block_index,
                               BlockTuples(shape, split_axes)[block_index + 1])
           IN  /\ request_rank' = requester
               /\ rank_msg' = [rank_msg EXCEPT ![source] = Tail(@)]
               /\ block_msg' = [block_msg EXCEPT ![dest] = Append(@, msg)]
               /\ sent_blocks' = [sent_blocks EXCEPT ![dest] =
                      Append(@, SentRecord(msg, Head(rank_msg[source])))]
    /\ block_index' = block_index + 1
    /\ UNCHANGED <<call, pc, result, static_vars, collect_msg, size,
                   all_ranks_status, collected_data, cur_block, calls>>

\* RootDispatch numbering the blocks from the last index down
RootDispatchCountingDown(rank) ==
    /\ rank \in Ranks
    /\ pc[rank] = "dispatch"
    /\ rank = root
    /\ block_index < Len(BlockTuples(shape, split_axes))
    /\ \E source \in Ranks :
        /\ rank_msg[source] # <<>>
        /\ LET requester == Head(rank_msg[source]).rank
               blocks == BlockTuples(shape, split_axes)
               msg == BlockMsg(Len(blocks) - 1 - block_index,
                               blocks[Len(blocks) - block_index])
           IN  /\ request_rank' = requester
               /\ rank_msg' = [rank_msg EXCEPT ![source] = Tail(@)]
               /\ block_msg' = [block_msg EXCEPT ![requester] = Append(@, msg)]
               /\ sent_blocks' = [sent_blocks EXCEPT ![requester] =
                      Append(@, SentRecord(msg, Head(rank_msg[source])))]
    /\ block_index' = block_index + 1
    /\ UNCHANGED <<call, pc, result, static_vars, collect_msg, size,
                   all_ranks_status, collected_data, cur_block, calls>>

\* RootDispatch choosing the block by the rank that asked
RootDispatchByRequester(rank) ==
    /\ rank \in Ranks
    /\ pc[rank] = "dispatch"
    /\ rank = root
    /\ block_index < Len(BlockTuples(shape, split_axes))
    /\ \E source \in Ranks :
        /\ rank_msg[source] # <<>>
        /\ LET requester == Head(rank_msg[source]).rank
               blocks == BlockTuples(shape, split_axes)
               msg == BlockMsg(block_index,
                               blocks[((block_index + requester) % Len(blocks)) + 1])
           IN  /\ request_rank' = requester
               /\ rank_msg' = [rank_msg EXCEPT ![source] = Tail(@)]
               /\ block_msg' = [block_msg EXCEPT ![requester] = Append(@, msg)]
               /\ sent_blocks' = [sent_blocks EXCEPT ![requester] =
                      Append(@, SentRecord(msg, Head(rank_msg[source])))]
    /\ block_index' = block_index + 1
    /\ UNCHANGED <<call, pc, result, static_vars, collect_msg, size,
                   all_ranks_status, collected_data, cur_block, calls>>

\* lines 173-179, one pass of the for loop: receive a request from any
\* source, send the next block to the rank of self.comm named in it.  The
\* requests go to rank self.root of self.comm (line 201), so only that rank
\* receives one; comm.send raises when the number named is no rank of
\* self.comm
RootDispatch(rank) ==
    /\ rank \in Ranks
    /\ pc[rank] = "dispatch"
    /\ rank = root
    /\ block_index < Len(BlockTuples(shape, split_axes))
    /\ \E source \in Ranks :
        /\ rank_msg[source] # <<>>
        /\ LET requester == Head(rank_msg[source]).rank
               msg == BlockMsg(block_index,
                               BlockTuples(shape, split_axes)[block_index + 1])
           IN  /\ request_rank' = requester
               /\ rank_msg' = [rank_msg EXCEPT ![source] = Tail(@)]
               /\ IF requester \in Ranks
                  THEN /\ block_msg' = [block_msg EXCEPT
                                           ![requester] = Append(@, msg)]
                       /\ sent_blocks' = [sent_blocks EXCEPT ![requester] =
                              Append(@, SentRecord(msg, Head(rank_msg[source])))]
                       /\ block_index' = block_index + 1
                       /\ UNCHANGED pc
                  ELSE /\ pc' = [pc EXCEPT ![rank] = "error"]
                       /\ UNCHANGED <<block_msg, sent_blocks, block_index>>
    /\ UNCHANGED <<call, result, static_vars, collect_msg, size,
                   all_ranks_status, collected_data, cur_block, calls>>

\* RootDrainSetup leaving the for loop before the last block
RootDrainSetupEarly(rank) ==
    /\ rank \in Ranks
    /\ pc[rank] = "dispatch"
    /\ IF root < size
       THEN /\ all_ranks_status' = SetStatus([i \in 1..size |-> FALSE], root)
            /\ collected_data' = EmptyDict
            /\ pc' = [pc EXCEPT ![rank] = "drain"]
       ELSE /\ pc' = [pc EXCEPT ![rank] = "error"]
            /\ UNCHANGED <<all_ranks_status, collected_data>>
    /\ UNCHANGED <<call, result, static_vars, net, size, block_index,
                   request_rank, cur_block, history>>

\* lines 182-184, after the for loop: the status array of `size` entries;
\* all_ranks_status[self.root] = True raises IndexError when root >= size
RootDrainSetup(rank) ==
    /\ rank \in Ranks
    /\ pc[rank] = "dispatch"
    /\ block_index = Len(BlockTuples(shape, split_axes))
    /\ IF root < size
       THEN /\ all_ranks_status' = SetStatus([i \in 1..size |-> FALSE], root)
            /\ collected_data' = EmptyDict
            /\ pc' = [pc EXCEPT ![rank] = "drain"]
       ELSE /\ pc' = [pc EXCEPT ![rank] = "error"]
            /\ UNCHANGED <<all_ranks_status, collected_data>>
    /\ UNCHANGED <<call, result, static_vars, net, size, block_index,
                   request_rank, cur_block, history>>

\* lines 187-192 past the receive of the rank's data: mark the rank, or raise
\* IndexError when request_rank >= size
RootMark(rank, requester) ==
    IF requester < size
    THEN /\ all_ranks_status' = SetStatus(all_ranks_status, requester)
         /\ pc' = [pc EXCEPT ![rank] = "drain"]
    ELSE /\ pc' = [pc EXCEPT ![rank] = "error"]
         /\ UNCHANGED all_ranks_status

\* lines 185-192, one pass of the while loop up to its next receive: receive
\* a request, reply (None, None) to the rank of self.comm named in it
\* (comm.send raises when there is no such rank); without collect_output
\* mark the rank
RootDrain(rank) ==
    /\ rank \in Ranks
    /\ pc[rank] = "drain"
    /\ rank = root
    /\ \E i \in 1..Len(all_ranks_status) : ~all_ranks_status[i]
    /\ \E source \in Ranks :
        /\ rank_msg[source] # <<>>
        /\ LET requester == Head(rank_msg[source]).rank IN
            /\ request_rank' = requester
            /\ rank_msg' = [rank_msg EXCEPT ![source] = Tail(@)]
            /\ IF requester \in Ranks
               THEN /\ block_msg' = [block_msg EXCEPT
                                        ![requester] = Append(@, StopMsg)]
                    /\ sent_blocks' = [sent_blocks EXCEPT ![requester] =
                           Append(@, SentRecord(StopMsg, Head(rank_msg[source])))]
                    /\ IF collect_output
                       THEN /\ pc' = [pc EXCEPT ![rank] = "collect"]
                            /\ UNCHANGED all_ranks_status
                       ELSE RootMark(rank, requester)
               ELSE /\ pc' = [pc EXCEPT ![rank] = "error"]
                    /\ UNCHANGED <<block_msg, sent_blocks, all_ranks_status>>
    /\ UNCHANGED <<call, result, static_vars, collect_msg, size, block_index,
                   collected_data, cur_block, calls>>

\* collected_data.update(rank_data)
DictUpdate(dict, other) == other @@ dict

\* lines 190-192: receive the data of request_rank, merge them, mark the rank
RootCollect(rank) ==
    /\ rank \in Ranks
    /\ pc[rank] = "collect"
    /\ collect_msg[request_rank] # <<>>
    /\ collected_data' = DictUpdate(collected_data, Head(collect_msg[request_rank]))
    /\ collect_msg' = [collect_msg EXCEPT ![request_rank] = Tail(@)]
    /\ RootMark(rank, request_rank)
    /\ UNCHANGED <<call, result, static_vars, rank_msg, block_msg, size,
                   block_index, request_rank, cur_block, history>>

\* lines 185, 194, 213: every entry of all_ranks_status is set; return
\* collected_data
RootReturn(rank) ==
    /\ rank \in Ranks
    /\ pc[rank] = "drain"
    /\ \A i \in 1..Len(all_ranks_status) : all_ranks_status[i]
    /\ result' = [result EXCEPT ![rank] = [kind |-> "dict", items |-> collected_data]]
    /\ pc' = [pc EXCEPT ![rank] = "returned"]
    /\ UNCHANGED <<call, static_vars, net, root_vars, cur_block, history>>

(***************************************************************************)
(* run_dynamic on a rank that runs tasks (lines 197-213).                  *)
(***************************************************************************)
\* lines 199-201 on entry: self.result = {}; send the rank to root
WorkerSend(rank) ==
    /\ rank \in Ranks
    /\ pc[rank] = "start"
    /\ UsesDynamic
    /\ get_rank(rank) # root
    /\ result' = [result EXCEPT ![rank] = [kind |-> "dict", items |-> EmptyDict]]
    /\ rank_msg' = [rank_msg EXCEPT ![rank] = Append(@, Request(rank))]
    /\ pc' = [pc EXCEPT ![rank] = "wait"]
    /\ UNCHANGED <<call, static_vars, block_msg, collect_msg, root_vars,
                   cur_block, history>>

\* WorkerRecv leaving a received block in flight
WorkerRecvPeek(rank) ==
    /\ rank \in Ranks
    /\ pc[rank] = "wait"
    /\ block_msg[rank] # <<>>
    /\ cur_block' = [cur_block EXCEPT ![rank] = Head(block_msg[rank])]
    /\ IF Head(block_msg[rank]).none
       THEN /\ pc' = [pc EXCEPT ![rank] = "returned"]
            /\ block_msg' = [block_msg EXCEPT ![rank] = Tail(@)]
            /\ collect_msg' = [collect_msg EXCEPT ![rank] =
                                  IF collect_output
                                  THEN Append(@, result[rank].items)
                                  ELSE @]
       ELSE /\ pc' = [pc EXCEPT ![rank] = "task"]
            /\ UNCHANGED <<block_msg, collect_msg>>
    /\ UNCHANGED <<call, result, static_vars, rank_msg, root_vars, history>>

\* WorkerRecv sending self.result to root whatever collect_output is
WorkerRecvAlwaysSends(rank) ==
    /\ rank \in Ranks
    /\ pc[rank] = "wait"
    /\ block_msg[rank] # <<>>
    /\ block_msg' = [block_msg EXCEPT ![rank] = Tail(@)]
    /\ cur_block' = [cur_block EXCEPT ![rank] = Head(block_msg[rank])]
    /\ IF Head(block_msg[rank]).none
       THEN /\ pc' = [pc EXCEPT ![rank] = "returned"]
            /\ collect_msg' = [collect_msg EXCEPT ![rank] =
                                  Append(@, result[rank].items)]
       ELSE /\ pc' = [pc EXCEPT ![rank] = "task"]
            /\ UNCHANGED collect_msg
    /\ UNCHANGED <<call, result, static_vars, rank_msg, root_vars, history>>

\* lines 202-206: receive the reply; on (None, None) send self.result when
\* collect_output is set and return
WorkerRecv(rank) ==
    /\ rank \in Ranks
    /\ pc[rank] = "wait"
    /\ block_msg[rank] # <<>>
    /\ block_msg' = [block_msg EXCEPT ![rank] = Tail(@)]
    /\ cur_block' = [cur_block EXCEPT ![rank] = Head(block_msg[rank])]
    /\ IF Head(block_msg[rank]).none
       THEN /\ pc' = [pc EXCEPT ![rank] = "returned"]
            /\ collect_msg' = [collect_msg EXCEPT ![rank] =
                                  IF collect_output
                                  THEN Append(@, result[rank].items)
                                  ELSE @]
       ELSE /\ pc' = [pc EXCEPT ![rank] = "task"]
            /\ UNCHANGED collect_msg
    /\ UNCHANGED <<call, result, static_vars, rank_msg, root_vars, history>>

\* WorkerTask without storing the return value in self.result
WorkerTaskNoStore(rank) ==
    /\ rank \in Ranks
    /\ pc[rank] = "task"
    /\ LET data == MainDataGetItem(shape, cur_block[rank].block_selection) IN
        /\ task_function_params' = [task_function_params EXCEPT
               ![rank] = SetItem(@, main_data_param_name, data)]
        /\ task_calls' = [task_calls EXCEPT ![rank] =
               Append(@, [block |-> cur_block[rank].block_selection, data |-> data])]
    /\ rank_msg' = [rank_msg EXCEPT ![rank] = Append(@, Request(rank))]
    /\ pc' = [pc EXCEPT ![rank] = "wait"]
    /\ UNCHANGED <<call, result, static_vars, block_msg, collect_msg, root_vars,
                   cur_block, sent_blocks>>

\* WorkerTask sending two requests after the task
WorkerTaskTwoRequests(rank) ==
    /\ rank \in Ranks
    /\ pc[rank] = "task"
    /\ LET data == MainDataGetItem(shape, cur_block[rank].block_selection) IN
        /\ result' = [result EXCEPT ![rank].items =
               (cur_block[rank].block_index :> task_function(data)) @@ @]
        /\ task_function_params' = [task_function_params EXCEPT
               ![rank] = SetItem(@, main_data_param_name, data)]
        /\ task_calls' = [task_calls EXCEPT ![rank] =
               Append(@, [block |-> cur_block[rank].block_selection, data |-> data])]
    /\ rank_msg' = [rank_msg EXCEPT
                       ![rank] = Append(Append(@, Request(rank)), Request(rank))]
    /\ pc' = [pc EXCEPT ![rank] = "wait"]
    /\ UNCHANGED <<call, static_vars, block_msg, collect_msg, root_vars,
                   cur_block, sent_blocks>>

\* WorkerTask storing the return value under the number of the call on this
\* rank instead of the received block_index
WorkerTaskLocalKey(rank) ==
    /\ rank \in Ranks
    /\ pc[rank] = "task"
    /\ LET data == MainDataGetItem(shape, cur_block[rank].block_selection) IN
        /\ result' = [result EXCEPT ![rank].items =
               (Len(task_calls[rank]) :> task_function(data)) @@ @]
        /\ task_function_params' = [task_function_params EXCEPT
               ![rank] = SetItem(@, main_data_param_name, data)]
        /\ task_calls' = [task_calls EXCEPT ![rank] =
               Append(@, [block |-> cur_block[rank].block_selection, data |-> data])]
    /\ rank_msg' = [rank_msg EXCEPT ![rank] = Append(@, Request(rank))]
    /\ pc' = [pc EXCEPT ![rank] = "wait"]
    /\ UNCHANGED <<call, static_vars, block_msg, collect_msg, root_vars,
                   cur_block, sent_blocks>>

\* lines 208-210 and 201: store main_data[block_selection] in
\* self.task_function_params, run task_function, store the return value
\* under block_index, and send the next request
WorkerTask(rank) ==
    /\ rank \in Ranks
    /\ pc[rank] = "task"
    /\ LET data == MainDataGetItem(shape, cur_block[rank].block_selection) IN
        /\ result' = [result EXCEPT ![rank].items =
               (cur_block[rank].block_index :> task_function(data)) @@ @]
        /\ task_function_params' = [task_function_params EXCEPT
               ![rank] = SetItem(@, main_data_param_name, data)]
        /\ task_calls' = [task_calls EXCEPT ![rank] =
               Append(@, [block |-> cur_block[rank].block_selection, data |-> data])]
    /\ rank_msg' = [rank_msg EXCEPT ![rank] = Append(@, Request(rank))]
    /\ pc' = [pc EXCEPT ![rank] = "wait"]
    /\ UNCHANGED <<call, static_vars, block_msg, collect_msg, root_vars,
                   cur_block, sent_blocks>>

\* lines 208-210 when task_function raises: the exception leaves run(); the
\* data were stored in self.task_function_params, nothing is stored in
\* self.result and no request is sent
WorkerTaskRaises(rank) ==
    /\ rank \in Ranks
    /\ pc[rank] = "task"
    /\ LET data == MainDataGetItem(shape, cur_block[rank].block_selection) IN
        /\ task_function_params' = [task_function_params EXCEPT
               ![rank] = SetItem(@, main_data_param_name, data)]
        /\ task_calls' = [task_calls EXCEPT ![rank] =
               Append(@, [block |-> cur_block[rank].block_selection, data |-> data])]
    /\ pc' = [pc EXCEPT ![rank] = "error"]
    /\ UNCHANGED <<call, result, static_vars, net, root_vars, cur_block, sent_blocks>>

(***************************************************************************)
(* run() with a schedule that is neither DYNAMIC nor STATIC (lines 82-85). *)
(***************************************************************************)
\* neither test of run() holds: run() ends without a return statement and
\* gives None; self.result is not assigned
RunFallsThrough(rank) ==
    /\ rank \in Ranks
    /\ pc[rank] = "start"
    /\ schedule # "DYNAMIC"
    /\ schedule # "STATIC"
    /\ pc' = [pc EXCEPT ![rank] = "returned"]
    /\ UNCHANGED <<call, result, static_vars, net, root_vars, cur_block, history>>

(***************************************************************************)
(* Several run() calls one after the other on the same communicator.       *)
(***************************************************************************)
\* a rank that has returned from run() calls run() again, for the same
\* request: messages in flight stay in flight, the tags of lines 34-36 are
\* the same in every run
NextRun(rank) ==
    /\ rank \in Ranks
    /\ pc[rank] = "returned"
    /\ run[rank] < MaxRuns
    /\ run' = [run EXCEPT ![rank] = @ + 1]
    /\ pc' = [pc EXCEPT ![rank] = "start"]
    /\ UNCHANGED <<config, result, static_vars, net, root_vars, cur_block, history>>

(***************************************************************************)
(* The specification.                                                      *)
(***************************************************************************)
\* the ranks of the largest communicator among the inputs (the scenarios
\* run on 4 ranks)
AllRanks == 0..(IF MaxProcs > 4 THEN MaxProcs - 1 ELSE 3)

Next ==
    \E rank \in AllRanks :
        \/ StaticBlock(rank)
        \/ StaticTask(rank)
        \/ GatherSend(rank)
        \/ GatherRoot(rank)
        \/ RootSetup(rank)
        \/ RootDispatch(rank)
        \/ RootDrainSetup(rank)
        \/ RootDrain(rank)
        \/ RootCollect(rank)
        \/ RootReturn(rank)
        \/ WorkerSend(rank)
        \/ WorkerRecv(rank)
        \/ WorkerTask(rank)

Spec == Init /\ [][Next]_vars

\* every rank is a running process: a step that stays possible is taken
FairSpec == Spec /\ WF_vars(Next)

\* the runs of the requests whose split_axes has an invalid index
\* the steps of run() for any schedule
AnyScheduleNext ==
    \E rank \in AllRanks :
        \/ RunFallsThrough(rank)
        \/ StaticBlock(rank)
        \/ StaticTask(rank)
        \/ GatherSend(rank)
        \/ GatherRoot(rank)
        \/ RootSetup(rank)
        \/ RootDispatch(rank)
        \/ RootDrainSetup(rank)
        \/ RootDrain(rank)
        \/ RootCollect(rank)
        \/ RootReturn(rank)
        \/ WorkerSend(rank)
        \/ WorkerRecv(rank)
        \/ WorkerTask(rank)

AnyScheduleSpec == InitAnySchedule /\ [][AnyScheduleNext]_vars

SubCommSpec == InitSubComm /\ [][Next]_vars

InvalidAxesSpec == InitInvalidAxes /\ [][Next]_vars

\* the steps of DYNAMIC runs called one after the other
RepeatedNext ==
    \E rank \in AllRanks :
        \/ RootSetup(rank)
        \/ RootDispatch(rank)
        \/ RootDrainSetup(rank)
        \/ RootDrain(rank)
        \/ RootCollect(rank)
        \/ RootReturn(rank)
        \/ WorkerSend(rank)
        \/ WorkerRecv(rank)
        \/ WorkerTask(rank)
        \/ NextRun(rank)

RepeatedSpec == InitRepeated /\ [][RepeatedNext]_vars

\* the steps of a DYNAMIC run whose task_function may raise
FailingNext ==
    \E rank \in AllRanks :
        \/ RootSetup(rank)
        \/ RootDispatch(rank)
        \/ RootDrainSetup(rank)
        \/ RootDrain(rank)
        \/ RootCollect(rank)
        \/ RootReturn(rank)
        \/ WorkerSend(rank)
        \/ WorkerRecv(rank)
        \/ WorkerTask(rank)
        \/ WorkerTaskRaises(rank)

FailingSpec == InitDynamic /\ [][FailingNext]_vars

(***************************************************************************)
(* Notions the properties are stated in.                                   *)
(***************************************************************************)
\* total_subblocks: the product of the extents of the split axes
TotalSubblocks == Prod([i \in 1..Len(split_axes) |-> shape[split_axes[i] + 1]])

\* S: the extent of the largest split axis
LargestSplitExtent ==
    CHOOSE m \in {shape[split_axes[i] + 1] : i \in 1..Len(split_axes)} :
        \A i \in 1..Len(split_axes) : shape[split_axes[i] + 1] <= m

\* P: the effective process count
EffectiveProcs == Min(comm_size, TotalSubblocks)

\* every rank has returned from run()
AllReturned == \A r \in Ranks : pc[r] = "returned"

\* the controlling rank has left the for loop over the blocks
DispatchOver == pc[root] \in {"drain", "collect", "returned", "error"}

\* the block indices sent to rank r so far
SentIndices(r) ==
    {sent_blocks[r][i].block_index :
        i \in {j \in 1..Len(sent_blocks[r]) : ~sent_blocks[r][j].none}}

\* the ranks that were sent a block
Assigned == {r \in Ranks : \E i \in 1..Len(sent_blocks[r]) : ~sent_blocks[r][i].none}

(***************************************************************************)
(* C1: in a DYNAMIC run on at least 2 ranks the block indices root sends   *)
(* are 0, 1, 2, .. in turn: at any time each index below block_index has   *)
(* been sent exactly once (to one rank), no other index has been sent, and *)
(* when root has left the dispatch loop every index of                     *)
(* 0..total_subblocks-1 has been sent exactly once.                        *)
(***************************************************************************)
C1_ExactlyOnceDispatch ==
    UsesDynamic =>
        /\ UNION {SentIndices(r) : r \in Ranks} = 0..(block_index - 1)
        /\ \A r1, r2 \in Ranks :
               \A i1 \in 1..Len(sent_blocks[r1]), i2 \in 1..Len(sent_blocks[r2]) :
                   (/\ ~sent_blocks[r1][i1].none
                    /\ ~sent_blocks[r2][i2].none
                    /\ sent_blocks[r1][i1].block_index = sent_blocks[r2][i2].block_index)
                   => (r1 = r2 /\ i1 = i2)
        /\ block_index <= TotalSubblocks
        /\ DispatchOver => block_index = TotalSubblocks

\* a completed DYNAMIC run in which two ranks were sent blocks
C1_Witness ==
    /\ UsesDynamic
    /\ AllReturned
    /\ TotalSubblocks >= 3
    /\ Cardinality(Assigned) >= 2

(***************************************************************************)
(* C2: a DYNAMIC run on at least 2 ranks terminates: when every rank keeps *)
(* taking the steps it can take, eventually every rank has returned from   *)
(* run() (root after its draining loop, the others after the (None, None)  *)
(* reply).                                                                 *)
(***************************************************************************)
C2_DynamicTerminates == UsesDynamic ~> AllReturned

\* the same for the runs with at least as many sub-blocks as ranks
DynamicTerminatesWhenEnoughBlocks ==
    (UsesDynamic /\ TotalSubblocks >= comm_size) ~> AllReturned

(***************************************************************************)
(* C3: when collect_output is set, what run() returns on root in a DYNAMIC *)
(* run is a dict whose keys are exactly 0..total_subblocks-1, the value at *)
(* key k being task_function applied to the data of the k-th block.        *)
(***************************************************************************)
\* the return value of task_function on block k of the enumeration
TaskOnBlock(k) ==
    task_function(MainDataGetItem(shape, BlockTuples(shape, split_axes)[k + 1]))

C3_DynamicAggregation ==
    (UsesDynamic /\ collect_output /\ pc[root] = "returned") =>
        /\ result[root].kind = "dict"
        /\ DOMAIN result[root].items = 0..(TotalSubblocks - 1)
        /\ \A k \in DOMAIN result[root].items : result[root].items[k] = TaskOnBlock(k)

\* the same for the runs with at least as many sub-blocks as ranks
DynamicAggregationWhenEnoughBlocks ==
    (TotalSubblocks >= comm_size) => C3_DynamicAggregation

(***************************************************************************)
(* C4: fewer sub-blocks than ranks is not an error: in such a run, STATIC  *)
(* or DYNAMIC, no rank fails and whenever no rank can take a step every    *)
(* rank has returned from run().                                           *)
(***************************************************************************)
C4_InsufficientWorkloadCompletes ==
    (TotalSubblocks < comm_size) =>
        /\ \A r \in Ranks : pc[r] # "error"
        /\ AllReturned \/ ENABLED Next

(***************************************************************************)
(* C5: in a STATIC run with S >= P the index ranges of the blocks of the   *)
(* ranks 0..P-1 are non-empty and pairwise disjoint, and once these ranks  *)
(* all have their block the ranges together are exactly 0..S-1.            *)
(***************************************************************************)
\* the ranks below P that have computed my_block
Planned == {r \in Ranks : r < EffectiveProcs /\ my_block[r] # <<>>}

\* the slice(start, stop) entry of the block of rank r
BlockSlice(r) ==
    my_block[r][CHOOSE a \in 1..Len(shape) : my_block[r][a].kind = "slice"]

\* the indices start, .., stop-1 of the block of rank r
BlockRange(r) == BlockSlice(r).start..(BlockSlice(r).stop - 1)

C5_StaticCoverage ==
    (UsesStatic /\ LargestSplitExtent >= EffectiveProcs) =>
        /\ \A r \in Planned :
               /\ \E a \in 1..Len(shape) : my_block[r][a].kind = "slice"
               /\ BlockRange(r) # {}
        /\ \A r1, r2 \in Planned : r1 # r2 => BlockRange(r1) \cap BlockRange(r2) = {}
        /\ Planned = 0..(EffectiveProcs - 1) =>
               UNION {BlockRange(r) : r \in Planned} = 0..(LargestSplitExtent - 1)

\* every rank of a STATIC run on several ranks has its block, and the axis
\* does not divide evenly
C5_Witness ==
    /\ UsesStatic
    /\ EffectiveProcs >= 2
    /\ LargestSplitExtent % EffectiveProcs # 0
    /\ Planned = 0..(EffectiveProcs - 1)

(***************************************************************************)
(* C6: in a STATIC run, with block_size = S \div P, rank r < P-1 has the   *)
(* range [r*block_size, (r+1)*block_size) and rank P-1 the range           *)
(* [(P-1)*block_size, S); shape (8,) on 4 ranks gives [0,2) [2,4) [4,6)    *)
(* [6,8), shape (9,) on 4 ranks gives [0,2) [2,4) [4,6) [6,9).             *)
(***************************************************************************)
\* rank r has computed its block and its slice is slice(start, stop)
HasSlice(r, start, stop) ==
    my_block[r] # <<>> => BlockSlice(r) = Slice(start, stop)

C6_StaticBlockFormula ==
    /\ (UsesStatic /\ LargestSplitExtent >= EffectiveProcs) =>
           LET bs == LargestSplitExtent \div EffectiveProcs IN
           \A r \in Planned :
               HasSlice(r, r * bs,
                        IF r = EffectiveProcs - 1 THEN LargestSplitExtent
                        ELSE (r + 1) * bs)
    /\ (UsesStatic /\ shape = <<8>> /\ comm_size = 4) =>
           /\ HasSlice(0, 0, 2) /\ HasSlice(1, 2, 4)
           /\ HasSlice(2, 4, 6) /\ HasSlice(3, 6, 8)
    /\ (UsesStatic /\ shape = <<9>> /\ comm_size = 4) =>
           /\ HasSlice(0, 0, 2) /\ HasSlice(1, 2, 4)
           /\ HasSlice(2, 4, 6) /\ HasSlice(3, 6, 9)

\* shape (9,) on 4 ranks, every rank has its block
C6_Witness ==
    /\ UsesStatic
    /\ shape = <<9>>
    /\ comm_size = 4
    /\ \A r \in Ranks : my_block[r] # <<>>

(***************************************************************************)
(* C7: in a STATIC run the slice(start, stop) of a rank's block is on the  *)
(* dataset axis that is the member of split_axes of largest extent, and    *)
(* every other dataset axis is taken in full, whatever the list split_axes *)
(* is.                                                                     *)
(***************************************************************************)
C7_StaticSplitAxis ==
    UsesStatic =>
        \A r \in Ranks : my_block[r] # <<>> =>
            \E a \in 1..Len(shape) :
                /\ \E i \in 1..Len(split_axes) : split_axes[i] = a - 1
                /\ shape[a] = LargestSplitExtent
                /\ my_block[r][a].kind = "slice"
                /\ \A b \in (1..Len(shape)) \ {a} : my_block[r][b] = SliceNone

\* the same for the lists split_axes = 0, 1, .., n-1
StaticSplitAxisOfPrefix ==
    (\A i \in 1..Len(split_axes) : split_axes[i] = i - 1) => C7_StaticSplitAxis

(***************************************************************************)
(* C8.  As claimed: a STATIC run whose largest split-axis extent is below  *)
(* the number of ranks fails on every rank, and no rank calls              *)
(* task_function.                                                          *)
(***************************************************************************)
\* every rank is before its first step of run() or has raised; none has
\* called task_function
NoRankRuns ==
    \A r \in Ranks : pc[r] \in {"start", "error"} /\ task_calls[r] = <<>>

C8_AxisBelowRanksRaises ==
    (UsesStatic /\ LargestSplitExtent < comm_size) => NoRankRuns

(***************************************************************************)
(* C8, amended: a STATIC run whose largest split-axis extent is below the  *)
(* effective process count min(ranks, total_subblocks) fails on every      *)
(* rank, and no rank calls task_function.                                  *)
(***************************************************************************)
C8_AxisBelowEffectiveProcsRaises ==
    (UsesStatic /\ LargestSplitExtent < EffectiveProcs) =>
        /\ NoRankRuns
        /\ \A r \in Ranks : pc[r] = "start" => ENABLED StaticBlock(r)

\* every rank of such a run has raised
C8_Witness ==
    /\ UsesStatic
    /\ LargestSplitExtent < EffectiveProcs
    /\ \A r \in Ranks : pc[r] = "error"

(***************************************************************************)
(* C9: when collect_output is set, what run() returns on root in a STATIC  *)
(* run is a list of P = min(ranks, total_subblocks) entries, entry r being *)
(* what task_function returned on rank r.                                  *)
(***************************************************************************)
C9_StaticAggregation ==
    (UsesStatic /\ collect_output /\ pc[root] = "returned") =>
        /\ result[root].kind = "list"
        /\ Len(result[root].items) = EffectiveProcs
        /\ \A r \in 0..(EffectiveProcs - 1) :
               /\ Len(task_calls[r]) = 1
               /\ result[root].items[r + 1] = task_function(task_calls[r][1].data)

\* the same for the runs with at least as many sub-blocks as ranks
StaticAggregationWhenEnoughBlocks ==
    (TotalSubblocks >= comm_size) => C9_StaticAggregation

(***************************************************************************)
(* C10: task_function is called once per assigned block.  STATIC: a rank   *)
(* calls it at most once, on its own block, and in a completed run each of *)
(* the ranks 0..P-1 has called it exactly once.  DYNAMIC: every call is on *)
(* a block the calling rank has received, in the order received; no block  *)
(* is the argument of two calls, and in a completed run every block is the *)
(* argument of exactly one call.                                           *)
(***************************************************************************)
\* the blocks task_function has been called on
CalledBlocks ==
    UNION {{task_calls[r][i].block : i \in 1..Len(task_calls[r])} : r \in Ranks}

\* the blocks of the enumeration of a DYNAMIC run
AllBlocks ==
    LET blocks == BlockTuples(shape, split_axes)
    IN  {blocks[k] : k \in 1..Len(blocks)}

\* the blocks among a sequence of BLOCK_MSG messages
BlocksOf(msgs) == SelectSeq(msgs, LAMBDA m : ~m.none)

\* the blocks rank r has received: those sent to it and no longer in flight
ReceivedBlocks(r) ==
    SubSeq(BlocksOf(sent_blocks[r]), 1,
           Len(BlocksOf(sent_blocks[r])) - Len(BlocksOf(block_msg[r])))

C10_TaskInvocations ==
    /\ UsesStatic =>
        /\ \A r \in Ranks :
               /\ Len(task_calls[r]) <= 1
               /\ task_calls[r] # <<>> => task_calls[r][1].block = my_block[r]
        /\ AllReturned =>
               \A r \in 0..(EffectiveProcs - 1) : Len(task_calls[r]) = 1
    /\ UsesDynamic =>
        /\ \A r \in Ranks :
               /\ Len(task_calls[r]) <= Len(ReceivedBlocks(r))
               /\ \A i \in 1..Len(task_calls[r]) :
                      task_calls[r][i].block = ReceivedBlocks(r)[i].block_selection
        /\ \A r1, r2 \in Ranks :
               \A i1 \in 1..Len(task_calls[r1]), i2 \in 1..Len(task_calls[r2]) :
                   task_calls[r1][i1].block = task_calls[r2][i2].block
                   => (r1 = r2 /\ i1 = i2)
        /\ AllReturned =>
               /\ CalledBlocks = AllBlocks
               /\ Cardinality(AllBlocks) = TotalSubblocks

\* a completed DYNAMIC run in which two ranks have called task_function
C10_Witness ==
    /\ UsesDynamic
    /\ AllReturned
    /\ \E r1, r2 \in Ranks : r1 # r2 /\ task_calls[r1] # <<>> /\ task_calls[r2] # <<>>

(***************************************************************************)
(* C11: a DYNAMIC request built with MPI on a communicator of fewer than 2 *)
(* ranks sends                                                             *)
(* and receives no RANK_MSG, BLOCK_MSG or COLLECT_MSG message, never       *)
(* blocks or fails, and returns what run_static returns for the request:   *)
(* task_function on the block of rank 0 of 1, inside a one-entry list when *)
(* collect_output is set.                                                  *)
(***************************************************************************)
\* what run_static returns on the only rank of a communicator of one rank
StaticResultOfOne ==
    LET value == task_function(
                     MainDataGetItem(shape, MyBlock(shape, split_axes, 1, 0)))
    IN  IF collect_output
        THEN [kind |-> "list", items |-> <<value>>]
        ELSE value

\* no message of the DYNAMIC protocol is in flight or was sent
NoDynamicMessage ==
    \A r \in Ranks :
        /\ rank_msg[r] = <<>>
        /\ block_msg[r] = <<>>
        /\ collect_msg[r] = <<>>
        /\ sent_blocks[r] = <<>>

C11_DynamicFallback ==
    (MPI_AVAILABLE /\ schedule = "DYNAMIC" /\ comm_size < 2) =>
        /\ NoDynamicMessage
        /\ \A r \in Ranks : pc[r] # "error"
        /\ AllReturned \/ ENABLED Next
        /\ \A r \in Ranks : pc[r] = "returned" => result[r] = StaticResultOfOne

\* a DYNAMIC request with collect_output on one rank has returned
C11_Witness ==
    /\ MPI_AVAILABLE
    /\ schedule = "DYNAMIC"
    /\ comm_size = 1
    /\ collect_output
    /\ Len(split_axes) = 2
    /\ pc[0] = "returned"

(***************************************************************************)
(* C12: run() leaves the task_function_params of the request as the caller *)
(* built them, on every rank and at every point of a STATIC or DYNAMIC     *)
(* run: same keys, same values, and no entry under main_data_param_name.   *)
(***************************************************************************)
C12_RequestImmutable ==
    \A r \in Ranks :
        /\ task_function_params[r] = caller_params
        /\ main_data_param_name \notin DOMAIN task_function_params[r]

(***************************************************************************)
(* C13: when split_axes holds an index outside 0..n-1 (n the number of     *)
(* axes of main_data; a negative index included), no rank gets past the    *)
(* start of run() other than by raising: no message is sent and no rank    *)
(* calls task_function.                                                    *)
(***************************************************************************)
\* split_axes holds an index that is negative or past the last axis
InvalidSplitAxes ==
    \E i \in 1..Len(split_axes) :
        split_axes[i] < 0 \/ split_axes[i] >= Len(shape)

C13_InvalidAxesRaise ==
    InvalidSplitAxes => (NoRankRuns /\ NoDynamicMessage)

\* the same for the STATIC runs with an index numpy rejects
StaticOutOfRangeAxesRaise ==
    (UsesStatic /\ ~AxesInRange(shape, split_axes)) => (NoRankRuns /\ NoDynamicMessage)

(***************************************************************************)
(* C14: in a DYNAMIC run on at least 2 ranks root never calls              *)
(* task_function, never sends a RANK_MSG request (none is in flight from   *)
(* root or names root), and no block is sent to root.                      *)
(***************************************************************************)
C14_RootTakesNoBlock ==
    UsesDynamic =>
        /\ task_calls[root] = <<>>
        /\ rank_msg[root] = <<>>
        /\ \A s \in Ranks : \A i \in 1..Len(rank_msg[s]) : rank_msg[s][i].rank # root
        /\ BlocksOf(sent_blocks[root]) = <<>>
        /\ block_msg[root] = <<>>

\* a completed DYNAMIC run on 3 ranks whose blocks went to both other ranks
C14_Witness ==
    /\ UsesDynamic
    /\ comm_size = 3
    /\ AllReturned
    /\ Assigned = Ranks \ {root}

(***************************************************************************)
(* C15: in a DYNAMIC run every request in flight names the rank that sent  *)
(* it, and the replies (blocks and (None, None)) root has sent to a rank   *)
(* are as many as the requests of that rank root has received: one reply   *)
(* per received request, sent to the requester.                            *)
(***************************************************************************)
\* the requests rank r has sent: one on entry and one after each task
RequestsSent(r) ==
    IF r = root \/ pc[r] = "start" THEN 0 ELSE Len(task_calls[r]) + 1

\* the requests of rank r that root has received
RequestsReceived(r) == RequestsSent(r) - Len(rank_msg[r])

C15_UnicastReplies ==
    UsesDynamic =>
        \A r \in Ranks :
            /\ \A i \in 1..Len(rank_msg[r]) : rank_msg[r][i].rank = r
            /\ Len(sent_blocks[r]) = RequestsReceived(r)
            /\ Len(block_msg[r]) <= Len(sent_blocks[r])

\* root has answered requests of two ranks, one of them twice
C15_Witness ==
    /\ UsesDynamic
    /\ \E r1, r2 \in Ranks :
           /\ r1 # r2
           /\ Len(sent_blocks[r1]) >= 2
           /\ Len(sent_blocks[r2]) >= 1
           /\ \E i \in 1..Len(sent_blocks[r1]) : sent_blocks[r1][i].none

(***************************************************************************)
(* C16: when DYNAMIC runs are called one after the other on the same       *)
(* communicator, every request root answers was sent in the run() call     *)
(* root is in: root, while in one run, never receives the request a rank   *)
(* sent after entering the next run.                                       *)
(***************************************************************************)
C16_NoCrossTalk ==
    \A r \in Ranks : \A i \in 1..Len(sent_blocks[r]) :
        sent_blocks[r][i].request_run = sent_blocks[r][i].run

(***************************************************************************)
(* C17: without collect_output nothing is gathered and no COLLECT_MSG is   *)
(* sent, and a rank that called task_function returns its own results: in  *)
(* a STATIC run the return value of its call, in a DYNAMIC run the dict of *)
(* the return values of its calls under the indices of its blocks (root    *)
(* returns an empty dict).  With collect_output in a STATIC run every rank *)
(* but root still returns the return value of its own call.                *)
(***************************************************************************)
\* the return value of the only call of task_function on rank r
OwnStaticResult(r) == task_function(task_calls[r][1].data)

\* the dict of the return values of the calls on rank r, under the indices
\* of the blocks rank r received
OwnDynamicResult(r) ==
    [kind |-> "dict",
     items |-> [k \in {ReceivedBlocks(r)[i].block_index : i \in 1..Len(task_calls[r])} |->
                   task_function(
                       task_calls[r][CHOOSE i \in 1..Len(task_calls[r]) :
                                         ReceivedBlocks(r)[i].block_index = k].data)]]

C17_AggregationOptIn ==
    /\ ~collect_output =>
        /\ gather_buf = EmptyDict
        /\ \A r \in Ranks : collect_msg[r] = <<>>
        /\ UsesStatic =>
               \A r \in Ranks : pc[r] = "returned" => result[r] = OwnStaticResult(r)
        /\ UsesDynamic =>
               \A r \in Ranks : pc[r] = "returned" =>
                   result[r] = IF r = root
                               THEN [kind |-> "dict", items |-> EmptyDict]
                               ELSE OwnDynamicResult(r)
    /\ (collect_output /\ UsesStatic) =>
           \A r \in Ranks \ {root} :
               pc[r] = "returned" => result[r] = OwnStaticResult(r)

\* a completed DYNAMIC run without collect_output in which two ranks have
\* called task_function
C17_Witness ==
    /\ UsesDynamic
    /\ ~collect_output
    /\ AllReturned
    /\ \E r1, r2 \in Ranks : r1 # r2 /\ task_calls[r1] # <<>> /\ Len(task_calls[r2]) >= 2

\* a completed STATIC run with collect_output on several ranks
StaticCollectReturned ==
    /\ UsesStatic
    /\ collect_output
    /\ comm_size >= 2
    /\ AllReturned

(***************************************************************************)
(* C18: when task_function raises on a rank of a DYNAMIC run, that rank    *)
(* leaves run() with the exception and has no message in flight to root    *)
(* afterwards; the block it was given is not sent to any other rank; and   *)
(* root does not return from run().                                        *)
(***************************************************************************)
\* the ranks on which task_function raised
Failed == {r \in Ranks \ {root} : pc[r] = "error"}

C18_TaskFailure ==
    (UsesDynamic /\ Failed # {}) =>
        /\ \A r \in Failed : rank_msg[r] = <<>> /\ collect_msg[r] = <<>>
        /\ \A r \in Failed : \A q \in Ranks \ {r} :
               cur_block[r].block_index \notin SentIndices(q)
        /\ pc[root] # "returned"

\* the same for the runs with at least as many sub-blocks as ranks
TaskFailureWhenEnoughBlocks ==
    (TotalSubblocks >= comm_size) => C18_TaskFailure

(***************************************************************************)
(* C19: without MPI the construction of the request raises: the process    *)
(* has no request object, run() never starts on it (no block is computed,  *)
(* task_function is not called, no result is set, no message is sent), so  *)
(* run() never works with the rank 0 and size 1 that get_rank and get_size *)
(* fall back to.                                                           *)
(***************************************************************************)
\* run() has started on rank r
Started(r) ==
    \/ pc[r] \notin {"start", "error"}
    \/ my_block[r] # <<>>
    \/ task_calls[r] # <<>>
    \/ result[r] # None

C19_NoRequestWithoutMpi ==
    /\ ~MPI_AVAILABLE =>
           /\ \A r \in Ranks : pc[r] = "error" /\ ~Started(r)
           /\ NoDynamicMessage
           /\ gather_buf = EmptyDict
    /\ \A r \in Ranks :
           Started(r) => (get_rank(r) = r /\ get_size = comm_size /\ MPI_AVAILABLE)

\* a process without MPI after the failed construction
C19_Witness ==
    /\ ~MPI_AVAILABLE
    /\ schedule = "DYNAMIC"
    /\ \A r \in Ranks : pc[r] = "error"

(***************************************************************************)
(* C20: root dispatches, then drains, then is done: once a (None, None)    *)
(* reply has been sent, every block index of 0..total_subblocks-1 has been *)
(* sent and root has left the for loop for good; no rank is sent a block   *)
(* after a (None, None); and root returns only from the draining loop.     *)
(***************************************************************************)
\* a (None, None) reply has been sent
StopSent == \E r \in Ranks : \E i \in 1..Len(sent_blocks[r]) : sent_blocks[r][i].none

C20_RootPhases ==
    UsesDynamic =>
        /\ StopSent =>
               /\ UNION {SentIndices(r) : r \in Ranks} = 0..(TotalSubblocks - 1)
               /\ block_index = TotalSubblocks
               /\ pc[root] \in {"drain", "collect", "returned", "error"}
        /\ pc[root] \in {"start", "dispatch"} => ~StopSent
        /\ \A r \in Ranks : \A i, j \in 1..Len(sent_blocks[r]) :
               (i < j /\ sent_blocks[r][i].none) => sent_blocks[r][j].none
        /\ pc[root] = "returned" => block_index = TotalSubblocks

\* root is draining a run of 3 blocks: one rank has its (None, None), the
\* other not yet
C20_Witness ==
    /\ UsesDynamic
    /\ comm_size = 3
    /\ TotalSubblocks = 3
    /\ pc[root] = "drain"
    /\ StopSent
    /\ \E r \in Ranks \ {root} : sent_blocks[r] # <<>> /\ BlocksOf(sent_blocks[r]) = sent_blocks[r]

(***************************************************************************)
(* C21: in a DYNAMIC run, once root has left its draining loop every other *)
(* rank has been sent exactly one (None, None) and, with collect_output,   *)
(* root has received the results of that rank: the rank has returned and   *)
(* its COLLECT_MSG is no longer in flight.  Stated for every number of     *)
(* ranks, fewer sub-blocks than ranks included.                            *)
(***************************************************************************)
\* the (None, None) replies sent to rank r
StopsSentTo(r) == SelectSeq(sent_blocks[r], LAMBDA m : m.none)

C21_DoneImpliesAllStopped ==
    (UsesDynamic /\ pc[root] = "returned") =>
        \A r \in Ranks \ {root} :
            /\ Len(StopsSentTo(r)) = 1
            /\ collect_output => (pc[r] = "returned" /\ collect_msg[r] = <<>>)

\* the same for the runs with at least as many sub-blocks as ranks
DoneImpliesAllStoppedWhenEnoughBlocks ==
    (TotalSubblocks >= comm_size) => C21_DoneImpliesAllStopped

(***************************************************************************)
(* C22: the order of the steps of a task rank of a DYNAMIC run.  While it  *)
(* waits for a reply it has one request outstanding (the request, or the   *)
(* reply to it, is in flight).  Its results are sent to root only with     *)
(* collect_output, only after the (None, None) reply, and once.  After the *)
(* (None, None) reply it has no request in flight, calls task_function no  *)
(* more (its calls are as many as the blocks sent to it) and (None, None)  *)
(* is the last message sent to it.                                         *)
(***************************************************************************)
C22_WorkerOrder ==
    UsesDynamic =>
        \A r \in Ranks \ {root} :
            /\ pc[r] = "wait" =>
                   /\ RequestsSent(r) >= 1
                   /\ Len(rank_msg[r]) + Len(block_msg[r]) = 1
            /\ pc[r] = "task" => (~cur_block[r].none /\ rank_msg[r] = <<>>)
            /\ collect_msg[r] # <<>> =>
                   /\ collect_output
                   /\ pc[r] = "returned"
                   /\ Len(collect_msg[r]) = 1
            /\ pc[r] # "returned" =>
                   /\ collect_msg[r] = <<>>
                   /\ result[r] # None =>
                          DOMAIN result[r].items \cap DOMAIN collected_data = {}
            /\ pc[r] = "returned" =>
                   /\ cur_block[r].none
                   /\ rank_msg[r] = <<>>
                   /\ block_msg[r] = <<>>
                   /\ Len(task_calls[r]) = Len(BlocksOf(sent_blocks[r]))
                   /\ sent_blocks[r][Len(sent_blocks[r])].none

\* a rank has returned after two calls of task_function and its results are
\* in flight to root
C22_Witness ==
    /\ UsesDynamic
    /\ \E r \in Ranks \ {root} :
           /\ pc[r] = "returned"
           /\ Len(task_calls[r]) = 2
           /\ collect_msg[r] # <<>>

(***************************************************************************)
(* C23: in a DYNAMIC run the key sets of self.result of two different task *)
(* ranks are disjoint at any time, and a result dict in flight to root has *)
(* no key that collected_data already holds, so that the update of line    *)
(* 191 overwrites nothing.                                                 *)
(***************************************************************************)
\* the keys of self.result on task rank r
ResultKeys(r) == IF result[r] = None THEN {} ELSE DOMAIN result[r].items

C23_DisjointResults ==
    UsesDynamic =>
        /\ \A r1, r2 \in Ranks \ {root} :
               r1 # r2 => ResultKeys(r1) \cap ResultKeys(r2) = {}
        /\ \A r \in Ranks \ {root} :
               \A i \in 1..Len(collect_msg[r]) :
                   DOMAIN collect_msg[r][i] \cap DOMAIN collected_data = {}

\* root has merged the results of one rank and those of another rank, not
\* empty either, are in flight
C23_Witness ==
    /\ UsesDynamic
    /\ DOMAIN collected_data # {}
    /\ \E r \in Ranks \ {root} :
           /\ collect_msg[r] # <<>>
           /\ DOMAIN Head(collect_msg[r]) # {}

(***************************************************************************)
(* C24: in a DYNAMIC run the selection sent with block index k depends on  *)
(* shape, split_axes and k only: whichever rank asked, and in whatever     *)
(* order the requests arrived, it is the selection whose coordinates on    *)
(* the split axes are the digits of k, the last split axis of the dataset  *)
(* being the least significant.  Which rank receives index k is not fixed. *)
(***************************************************************************)
\* the dataset axes (counted from 1) named in split_axes
SplitAxisSet == {PyIndex(Len(shape), split_axes[i]) + 1 : i \in 1..Len(split_axes)}

\* the number of selections that differ only on the split axes after axis a
Stride(a) ==
    Prod([i \in 1..(Len(shape) - a) |->
             IF (a + i) \in SplitAxisSet THEN shape[a + i] ELSE 1])

\* the selection that goes with block index k
SelectionOfIndex(k) ==
    [a \in 1..Len(shape) |->
        IF a \in SplitAxisSet
        THEN Coord((k \div Stride(a)) % shape[a])
        ELSE SliceNone]

C24_DeterministicDispatch ==
    UsesDynamic =>
        \A r \in Ranks :
            /\ \A i \in 1..Len(sent_blocks[r]) :
                   ~sent_blocks[r][i].none =>
                       sent_blocks[r][i].block_selection =
                           SelectionOfIndex(sent_blocks[r][i].block_index)
            /\ (pc[r] = "task" /\ r # root) =>
                   cur_block[r].block_selection =
                       SelectionOfIndex(cur_block[r].block_index)

\* the first block went to a rank above the one that got the second block
C24_Witness ==
    /\ UsesDynamic
    /\ \E r1, r2 \in Ranks \ {root} :
           /\ r1 < r2
           /\ 1 \in SentIndices(r1)
           /\ 0 \in SentIndices(r2)

(***************************************************************************)
(* C25: the selections root enumerates in a DYNAMIC run are exactly the    *)
(* selections with one coordinate of 0..shape[a]-1 on every axis a of      *)
(* split_axes and slice(None) on every other axis; none comes twice, and   *)
(* there are total_num_subblocks of them.  Once the for loop is over, the  *)
(* selections sent are all of them.                                        *)
(***************************************************************************)
\* the Cartesian product of the coordinate ranges over the split axes
CartesianSelections ==
    {sel \in [1..Len(shape) ->
                 {SliceNone} \cup
                 {Coord(i) : i \in 0..(LargestSplitExtent - 1)}] :
        \A a \in 1..Len(shape) :
            IF \E i \in 1..Len(split_axes) : split_axes[i] = a - 1
            THEN sel[a].kind = "index" /\ sel[a].start < shape[a]
            ELSE sel[a] = SliceNone}

\* the selections sent so far
SentSelections ==
    UNION {{sent_blocks[r][i].block_selection :
               i \in {j \in 1..Len(sent_blocks[r]) : ~sent_blocks[r][j].none}} :
           r \in Ranks}

C25_WorkItemSet ==
    UsesDynamic =>
        LET blocks == BlockTuples(shape, split_axes)
            product == CartesianSelections
            sent == SentSelections
        IN  /\ {blocks[k] : k \in 1..Len(blocks)} = product
            /\ \A i, j \in 1..Len(blocks) : i # j => blocks[i] # blocks[j]
            /\ Len(blocks) = TotalSubblocks
            /\ sent \subseteq product
            /\ DispatchOver => sent = product

\* root has sent the four selections of a dataset split along its two axes
C25_Witness ==
    /\ UsesDynamic
    /\ DispatchOver
    /\ Len(split_axes) = 2
    /\ Cardinality(SentSelections) = 4

(***************************************************************************)
(* C26: the order in which root enumerates the selections of a DYNAMIC run *)
(* follows split_axes ordered by descending extent (axes_sort_index of     *)
(* run_static): the split axis of the largest extent is the most           *)
(* significant one, the one of the smallest extent varies fastest.  Stated *)
(* for the datasets whose split axes have pairwise different extents.      *)
(***************************************************************************)
\* the dataset axes (counted from 1) of split_axes in descending extent
AxesByExtent ==
    LET order == AxesSortIndex(shape, split_axes)
    IN  [k \in 1..Len(order) |-> PyIndex(Len(shape), split_axes[order[k] + 1]) + 1]

\* selection s comes before selection t when the coordinates are compared on
\* the axes of the list, the first axis of the list first
LexLess(s, t, axes) ==
    \E k \in 1..Len(axes) :
        /\ s[axes[k]].start < t[axes[k]].start
        /\ \A j \in 1..(k - 1) : s[axes[j]] = t[axes[j]]

\* the split axes of the dataset in ascending order of the axis index
AxesByIndex ==
    [k \in 1..Cardinality(SplitAxisSet) |->
        CHOOSE a \in SplitAxisSet :
            Cardinality({b \in SplitAxisSet : b < a}) = k - 1]

\* the block messages sent so far, as pairs of index and selection
SentPairs ==
    UNION {{<<sent_blocks[r][i].block_index, sent_blocks[r][i].block_selection>> :
               i \in {j \in 1..Len(sent_blocks[r]) : ~sent_blocks[r][j].none}} :
           r \in Ranks}

\* the blocks were sent in the order given by the list of axes
SentInOrderOf(axes) ==
    \A p, q \in SentPairs : p[1] < q[1] => LexLess(p[2], q[2], axes)

DistinctSplitExtents ==
    \A i, j \in 1..Len(split_axes) :
        i # j => shape[split_axes[i] + 1] # shape[split_axes[j] + 1]

C26_EnumerationByExtent ==
    (UsesDynamic /\ DistinctSplitExtents) => SentInOrderOf(AxesByExtent)

(***************************************************************************)
(* C26 as the code has it: the enumeration is in the order of the dataset  *)
(* axes, the split axis of the lowest index being the most significant one *)
(* and the last split axis varying fastest, whatever the extents of the    *)
(* axes and whatever the order of the entries of split_axes.               *)
(***************************************************************************)
C26_EnumerationByAxisIndex ==
    UsesDynamic => SentInOrderOf(AxesByIndex)

\* all six blocks of a dataset of shape (2, 3) were sent: the axis of the
\* largest extent is the last one
C26_Witness ==
    /\ UsesDynamic
    /\ DispatchOver
    /\ shape = <<2, 3>>
    /\ Cardinality(SentPairs) = 6

(***************************************************************************)
(* C27: in a STATIC run with fewer sub-blocks than ranks the ranks at and  *)
(* above P = total_num_subblocks stay idle: they do not call task_function *)
(* and hand nothing to the gather; in a completed run each of the ranks    *)
(* 0..P-1 has called task_function once.                                   *)
(***************************************************************************)
C27_IdleRanks ==
    (UsesStatic /\ TotalSubblocks < comm_size) =>
        /\ \A r \in Ranks :
               r >= EffectiveProcs =>
                   /\ task_calls[r] = <<>>
                   /\ r \notin DOMAIN gather_buf
        /\ AllReturned =>
               \A r \in 0..(EffectiveProcs - 1) : Len(task_calls[r]) = 1

(***************************************************************************)
(* C28: a STATIC run needs no communication to assign the blocks.  The     *)
(* range of the block of a rank is given by its rank, P and S alone; no    *)
(* message is sent or received; without collect_output nothing is handed   *)
(* to a gather; with collect_output a rank enters the gather once, after   *)
(* its one call of task_function, and returns when it has handed in its    *)
(* value.                                                                  *)
(***************************************************************************)
\* the range of rank r among P ranks on an axis of extent S
RangeOf(r, P, S) ==
    <<r * (S \div P), IF r = P - 1 THEN S ELSE r * (S \div P) + (S \div P)>>

C28_StaticNoCommunication ==
    UsesStatic =>
        /\ NoDynamicMessage
        /\ ~collect_output => gather_buf = EmptyDict
        /\ \A r \in Ranks :
               /\ my_block[r] # <<>> =>
                      <<BlockSlice(r).start, BlockSlice(r).stop>> =
                          RangeOf(r, EffectiveProcs, LargestSplitExtent)
               /\ pc[r] = "gather" =>
                      /\ collect_output
                      /\ Len(task_calls[r]) = 1
                      /\ r \notin DOMAIN gather_buf
               /\ r \in DOMAIN gather_buf =>
                      /\ pc[r] = "returned"
                      /\ Len(task_calls[r]) = 1
                      /\ gather_buf[r] = task_function(task_calls[r][1].data)

\* on several ranks, one rank has its block and has called task_function
\* while every other rank has not started and nothing was handed to the
\* gather
C28_Witness ==
    /\ UsesStatic
    /\ collect_output
    /\ comm_size >= 3
    /\ gather_buf = EmptyDict
    /\ \E r \in Ranks :
           /\ pc[r] = "gather"
           /\ \A q \in Ranks \ {r} : pc[q] = "start"

(***************************************************************************)
(* C30: the ranks of a STATIC run derive the same split axis and the same  *)
(* block_size, also when two axes of split_axes have the same extent: the  *)
(* slice of every rank is in the same entry of my_block, the one picked by *)
(* the last position of split_axes that has the largest extent, and the    *)
(* ranges of the ranks are laid out with one common block_size.            *)
(***************************************************************************)
\* the index (counted from 1) of the entry of my_block of rank r that holds
\* the slice
SliceEntry(r) == CHOOSE a \in 1..Len(shape) : my_block[r][a].kind = "slice"

\* the last position (counted from 0) of split_axes with the largest extent
LastLargestPosition ==
    CHOOSE p \in 0..(Len(split_axes) - 1) :
        /\ shape[split_axes[p + 1] + 1] = LargestSplitExtent
        /\ \A q \in (p + 1)..(Len(split_axes) - 1) :
               shape[split_axes[q + 1] + 1] < LargestSplitExtent

\* the ranks that have computed my_block
HaveBlock == {r \in Ranks : my_block[r] # <<>>}

C30_PlannerAgreement ==
    UsesStatic =>
        /\ \A r \in HaveBlock : SliceEntry(r) = LastLargestPosition + 1
        /\ \A r1, r2 \in HaveBlock : SliceEntry(r1) = SliceEntry(r2)
        /\ \E block_size \in 0..LargestSplitExtent :
               \A r \in HaveBlock :
                   /\ BlockSlice(r).start = r * block_size
                   /\ r # EffectiveProcs - 1 =>
                          BlockSlice(r).stop = BlockSlice(r).start + block_size

\* two ranks have their blocks of a dataset whose two split axes have the
\* same extent
C30_Witness ==
    /\ UsesStatic
    /\ Len(split_axes) = 2
    /\ shape[1] = shape[2]
    /\ Cardinality(HaveBlock) >= 2

(***************************************************************************)
(* C29: the rank and the size run() works with are those of self.comm,     *)
(* also when self.comm is not MPI.COMM_WORLD.  A rank's STATIC block is    *)
(* the block of its rank among the ranks of self.comm; the controlling     *)
(* rank of a DYNAMIC run is rank self.root of self.comm, and only a        *)
(* communicator of fewer than 2 ranks falls back to run_static; a request  *)
(* for work names the rank of its sender in self.comm.                     *)
(***************************************************************************)
\* the positions of run_dynamic on the controlling rank
RootPositions == {"dispatch", "drain", "collect"}

C29_RankAndSizeOfComm ==
    MPI_AVAILABLE =>
        \A r \in Ranks :
            /\ my_block[r] # <<>> =>
                   /\ my_block[r] = MyBlock(shape, split_axes, comm_size, r)
                   /\ schedule = "DYNAMIC" => comm_size < 2
            /\ pc[r] \in RootPositions => (r = root /\ comm_size >= 2)
            /\ \A i \in 1..Len(rank_msg[r]) :
                   /\ rank_msg[r][i].rank = r
                   /\ r # root
                   /\ comm_size >= 2

(***************************************************************************)
(* C31: in a STATIC run the NotImplementedError of line 110 is raised on   *)
(* every rank or on none.  A rank that raises has not called               *)
(* task_function; while one rank has raised no other rank has a block, is  *)
(* in the gather or has returned, and every rank that has not started yet  *)
(* is going to raise too.  (Without MPI there is no run: __init__ raises.) *)
(***************************************************************************)
\* the ranks on which run() has raised
Raised == {r \in Ranks : pc[r] = "error"}

\* the ranks past the test of line 109 without raising
PastRaise == {r \in Ranks : pc[r] \in {"static_task", "gather", "returned"}}

C31_UniformStaticError ==
    (is_mpi_available /\ UsesStatic) =>
        /\ Raised = {} \/ PastRaise = {}
        /\ \A r \in Raised : task_calls[r] = <<>> /\ my_block[r] = <<>>
        /\ Raised # {} => LargestSplitExtent < EffectiveProcs
        /\ PastRaise # {} => LargestSplitExtent >= EffectiveProcs
        /\ \A r \in Ranks :
               pc[r] = "gather" => \A q \in Ranks : pc[q] # "error"

\* on three ranks one has raised, the others have not started
C31_Witness ==
    /\ is_mpi_available
    /\ UsesStatic
    /\ comm_size = 3
    /\ Cardinality(Raised) = 1
    /\ \A r \in Ranks \ Raised : pc[r] = "start"

(***************************************************************************)
(* C32: the messages in flight in a DYNAMIC run are bounded.  For every    *)
(* task rank at most one of its requests is unanswered, at most one reply  *)
(* to it is not yet received, and at most one message with its results is  *)
(* not yet received; a request and a reply of the same rank are never in   *)
(* flight together, and no message is in flight from or to root itself.    *)
(***************************************************************************)
C32_BoundedInFlight ==
    UsesDynamic =>
        /\ \A r \in Ranks \ {root} :
               /\ Len(rank_msg[r]) <= 1
               /\ Len(block_msg[r]) <= 1
               /\ Len(collect_msg[r]) <= 1
               /\ Len(rank_msg[r]) + Len(block_msg[r]) <= 1
        /\ rank_msg[root] = <<>>
        /\ block_msg[root] = <<>>
        /\ collect_msg[root] = <<>>

\* a reply to one rank and the results of another rank are in flight
C32_Witness ==
    /\ UsesDynamic
    /\ \E r1, r2 \in Ranks \ {root} :
           /\ r1 # r2
           /\ Len(block_msg[r1]) = 1
           /\ Len(collect_msg[r2]) = 1

(***************************************************************************)
(* C33: no dispatched block is lost or doubled.  In a DYNAMIC run, with    *)
(* n = block_index of root, every index of 0..n-1 is in exactly one place: *)
(* a key of self.result of a task rank, the block a task rank is running   *)
(* task_function on, or a block message not yet received.  n never         *)
(* decreases and never exceeds total_num_subblocks.                        *)
(***************************************************************************)
\* the index of the block rank r is running task_function on
Computing(r) == IF pc[r] = "task" THEN {cur_block[r].block_index} ELSE {}

\* the indices of the block messages in flight to rank r
InFlight(r) ==
    {block_msg[r][i].block_index :
        i \in {j \in 1..Len(block_msg[r]) : ~block_msg[r][j].none}}

\* the indices rank r accounts for
AccountedBy(r) == ResultKeys(r) \cup Computing(r) \cup InFlight(r)

\* the number of block messages root has sent so far
BlocksSent == Cardinality(UNION {SentIndices(r) : r \in Ranks})

\* every index below block_index is in exactly one of the places given by
\* PlacesOf, and block_index counts the blocks sent
ConservedIn(PlacesOf(_)) ==
    /\ UNION {PlacesOf(r) : r \in Ranks \ {root}} = 0..(block_index - 1)
    /\ \A r1, r2 \in Ranks \ {root} :
           r1 # r2 => PlacesOf(r1) \cap PlacesOf(r2) = {}
    /\ \A r \in Ranks \ {root} :
           /\ ResultKeys(r) \cap Computing(r) = {}
           /\ ResultKeys(r) \cap InFlight(r) = {}
           /\ Computing(r) \cap InFlight(r) = {}
           /\ Cardinality(InFlight(r)) = Len(BlocksOf(block_msg[r]))
    /\ block_index = BlocksSent
    /\ block_index <= TotalSubblocks

C33_Conservation == UsesDynamic => ConservedIn(AccountedBy)

(***************************************************************************)
(* C33 as the code has it: a block whose task_function call raised is in   *)
(* none of the three places, and it is not sent again.  Every index of     *)
(* 0..n-1 is in exactly one of four places: a key of self.result of a task *)
(* rank, the block a task rank is running task_function on, a block        *)
(* message not yet received, or the block on which task_function raised on *)
(* a task rank.  n never decreases and never exceeds total_num_subblocks.  *)
(***************************************************************************)
\* the index of the block on which task_function raised on rank r
RaisedOn(r) == IF pc[r] = "error" /\ r # root THEN {cur_block[r].block_index} ELSE {}

\* the indices rank r accounts for, the failed one included
AccountedOrRaisedBy(r) == AccountedBy(r) \cup RaisedOn(r)

C33_ConservationWithFailures ==
    /\ [](UsesDynamic =>
            /\ ConservedIn(AccountedOrRaisedBy)
            /\ \A r \in Ranks \ {root} : RaisedOn(r) \cap AccountedBy(r) = {})
    /\ [][UsesDynamic => block_index' >= block_index]_vars

\* task_function has raised on one rank, the other rank holds a result and
\* has a block in flight
C33_Witness ==
    /\ UsesDynamic
    /\ \E r1, r2 \in Ranks \ {root} :
           /\ RaisedOn(r1) # {}
           /\ ResultKeys(r2) # {}
           /\ InFlight(r2) # {}

(***************************************************************************)
(* C34: the block indices a task rank receives in a DYNAMIC run are        *)
(* strictly increasing: of two blocks sent to the same rank the later one  *)
(* has the larger index, the rank receives them in that order, and the     *)
(* block it is running task_function on is the last one it received.       *)
(***************************************************************************)
\* the indices of a sequence of block messages are strictly increasing
Increasing(msgs) ==
    \A i, j \in 1..Len(msgs) : i < j => msgs[i].block_index < msgs[j].block_index

C34_MonotonicIndices ==
    UsesDynamic =>
        \A r \in Ranks \ {root} :
            /\ Increasing(BlocksOf(sent_blocks[r]))
            /\ Increasing(ReceivedBlocks(r))
            /\ pc[r] = "task" =>
                   /\ ReceivedBlocks(r) # <<>>
                   /\ cur_block[r].block_index =
                          ReceivedBlocks(r)[Len(ReceivedBlocks(r))].block_index
            /\ \A i \in 1..Len(task_calls[r]) :
                   ReceivedBlocks(r)[i].block_index \in ResultKeys(r)

\* a rank has received two blocks whose indices are not consecutive
C34_Witness ==
    /\ UsesDynamic
    /\ \E r \in Ranks \ {root} :
           /\ Len(ReceivedBlocks(r)) >= 2
           /\ ReceivedBlocks(r)[2].block_index > ReceivedBlocks(r)[1].block_index + 1

(***************************************************************************)
(* C35: when self.schedule is neither STATIC nor DYNAMIC, run() returns    *)
(* None on every rank: task_function is not called, no block is computed,  *)
(* nothing is sent, received or handed to a gather, nothing is raised and  *)
(* self.result stays None; a rank that has not returned yet can return.    *)
(***************************************************************************)
UnknownSchedule == is_mpi_available /\ schedule \notin {"STATIC", "DYNAMIC"}

C35_UnknownSchedule ==
    UnknownSchedule =>
        /\ NoDynamicMessage
        /\ gather_buf = EmptyDict
        /\ \A r \in Ranks :
               /\ pc[r] \in {"start", "returned"}
               /\ result[r] = None
               /\ task_calls[r] = <<>>
               /\ my_block[r] = <<>>
               /\ task_function_params[r] = caller_params
               /\ pc[r] = "start" => ENABLED RunFallsThrough(r)

\* every rank of a communicator of three ranks has returned from such a run
C35_Witness ==
    /\ UnknownSchedule
    /\ comm_size = 3
    /\ AllReturned

====
